---- MODULE Spec2Model ----
(***************************************************************************)
(* Model of src/app.py: the Streamlit page that normalises a deck URL,     *)
(* probes it with one HTTP GET, shows a status line and asks an LLM for    *)
(* guidance (with a literal fallback text).                                *)
(*                                                                         *)
(* Text that the program inspects character by character (URLs, response   *)
(* bodies) is a sequence of one-character strings.  Text that is only      *)
(* concatenated or tested for emptiness (exception messages, guidance) is  *)
(* a TLA+ string.  A Python value that may be None is a sequence of length *)
(* at most one: None is << >> and a value v is << v >>.                    *)
(***************************************************************************)
EXTENDS Integers, Sequences, FiniteSets, TLC

VARIABLES pc, url_input, url, provider_warning, url_error, probe,
          access_info, status_shown, llm, guidance, prompt, calls

vars == <<pc, url_input, url, provider_warning, url_error, probe,
          access_info, status_shown, llm, guidance, prompt, calls>>

None == << >>

Some(v) == << v >>

\* ------------------------------------------------------------------------
\* Bounds of the model
\* ------------------------------------------------------------------------

\* Largest number of whitespace characters put before / after the typed URL.
MaxPad == 1

\* ------------------------------------------------------------------------
\* Python str operations used by the program
\* ------------------------------------------------------------------------

UPPER == <<"A", "B", "C", "D", "E", "F", "G", "H", "I", "J", "K", "L", "M", "N", "O", "P", "Q", "R", "S", "T", "U", "V", "W", "X", "Y", "Z">>

LOWER == <<"a", "b", "c", "d", "e", "f", "g", "h", "i", "j", "k", "l", "m", "n", "o", "p", "q", "r", "s", "t", "u", "v", "w", "x", "y", "z">>

DIGITS == <<"0", "1", "2", "3", "4", "5", "6", "7", "8", "9">>

\* str.isspace() for one character (ASCII part).
IsSpace(c) == c \in {" ", "\t", "\n", "\r", "\f"}

LowerChar(c) ==
    IF \E i \in 1..Len(UPPER) : UPPER[i] = c
    THEN LOWER[CHOOSE i \in 1..Len(UPPER) : UPPER[i] = c]
    ELSE c

\* str.lower()
Lower(s) == [i \in 1..Len(s) |-> LowerChar(s[i])]

\* str.strip()
Strip(s) ==
    LET keep == {i \in 1..Len(s) : ~IsSpace(s[i])}
    IN  IF keep = {} THEN << >>
        ELSE LET lo == CHOOSE i \in keep : \A j \in keep : i <= j
                 hi == CHOOSE i \in keep : \A j \in keep : j <= i
             IN  SubSeq(s, lo, hi)

\* str.startswith(prefix)
StartsWith(s, prefix) ==
    /\ Len(prefix) <= Len(s)
    /\ SubSeq(s, 1, Len(prefix)) = prefix

\* the `in` operator on two strings: sub in s
Contains(sub, s) ==
    \E i \in 1..(Len(s) - Len(sub) + 1) : SubSeq(s, i, i + Len(sub) - 1) = sub

\* ------------------------------------------------------------------------
\* normalize_url
\* ------------------------------------------------------------------------

HTTP == <<"h", "t", "t", "p", ":", "/", "/">>

HTTPS == <<"h", "t", "t", "p", "s", ":", "/", "/">>

\* Variant of normalize_url that tests the scheme prefix without lower().
normalize_url_case_sensitive(u) ==
    IF u = << >> THEN << >>
    ELSE LET t == Strip(u)
         IN  IF ~(StartsWith(t, HTTP) \/ StartsWith(t, HTTPS))
             THEN HTTPS \o t
             ELSE t

normalize_url(u) ==
    IF u = << >> THEN << >>
    ELSE LET t == Strip(u)
         IN  IF ~(StartsWith(Lower(t), HTTP) \/ StartsWith(Lower(t), HTTPS))
             THEN HTTPS \o t
             ELSE t

\* ------------------------------------------------------------------------
\* is_presentations_ai_url
\* ------------------------------------------------------------------------

PROVIDER == <<"p", "r", "e", "s", "e", "n", "t", "a", "t", "i", "o", "n", "s", ".", "a", "i">>

\* Characters urllib accepts in a scheme.
IsSchemeChar(c) ==
    \/ \E i \in 1..Len(LOWER) : LOWER[i] = c \/ UPPER[i] = c
    \/ \E i \in 1..Len(DIGITS) : DIGITS[i] = c
    \/ c \in {"+", "-", "."}

IsAlpha(c) == \E i \in 1..Len(LOWER) : LOWER[i] = c \/ UPPER[i] = c

\* First position of the character c in s, 0 when absent (str.find + 1).
Find(s, c) ==
    IF \E i \in 1..Len(s) : s[i] = c
    THEN CHOOSE i \in 1..Len(s) : s[i] = c /\ \A j \in 1..(i - 1) : s[j] # c
    ELSE 0

\* urllib.parse.urlparse(u), as far as the netloc is concerned: tab and
\* newline characters are dropped, a leading scheme and ':' is split off,
\* and after '//' the netloc runs up to the first of '/', '?', '#'.  A netloc
\* with an unmatched '[' or ']' makes urlparse raise ValueError.
urlparse(u) ==
    LET clean == SelectSeq(u, LAMBDA c : c \notin {"\t", "\r", "\n"})
        i     == Find(clean, ":")
        hasScheme ==
            /\ i > 1
            /\ IsAlpha(clean[1])
            /\ \A j \in 1..(i - 1) : IsSchemeChar(clean[j])
        rest  == IF hasScheme THEN SubSeq(clean, i + 1, Len(clean)) ELSE clean
        hasNetloc == Len(rest) >= 2 /\ rest[1] = "/" /\ rest[2] = "/"
        tail  == SubSeq(rest, 3, Len(rest))
        stops == {j \in 1..Len(tail) : tail[j] \in {"/", "?", "#"}}
        delim == IF stops = {} THEN Len(tail) + 1
                 ELSE CHOOSE j \in stops : \A k \in stops : j <= k
        netloc == IF hasNetloc THEN SubSeq(tail, 1, delim - 1) ELSE << >>
        open  == \E j \in 1..Len(netloc) : netloc[j] = "["
        close == \E j \in 1..Len(netloc) : netloc[j] = "]"
    IN  [raised |-> (open /\ ~close) \/ (close /\ ~open),
         netloc |-> netloc]

\* Variant of is_presentations_ai_url without the try/except: a ValueError
\* of urlparse reaches the caller.
is_presentations_ai_url_unguarded(u) ==
    LET parsed == urlparse(u)
    IN  IF parsed.raised
        THEN [raised |-> TRUE, value |-> FALSE]
        ELSE [raised |-> FALSE, value |-> Contains(PROVIDER, parsed.netloc)]

\* The result is the pair (did the call raise, returned boolean).
is_presentations_ai_url(u) ==
    LET parsed == urlparse(u)
    IN  IF parsed.raised
        THEN [raised |-> FALSE, value |-> FALSE]
        ELSE [raised |-> FALSE, value |-> Contains(PROVIDER, parsed.netloc)]

\* ------------------------------------------------------------------------
\* check_url_accessibility
\* ------------------------------------------------------------------------

auth_markers ==
    { <<"s", "i", "g", "n", " ", "i", "n">>,
      <<"l", "o", "g", " ", "i", "n">>,
      <<"l", "o", "g", "i", "n">>,
      <<"u", "n", "a", "u", "t", "h", "o", "r", "i", "z", "e", "d">>,
      <<"p", "e", "r", "m", "i", "s", "s", "i", "o", "n">>,
      <<"r", "e", "q", "u", "e", "s", "t", " ", "a", "c", "c", "e", "s", "s">> }

\* The verdict dict as it is created, before the request is made.
info_default ==
    [ok |-> FALSE, status_code |-> None, final_url |-> None,
     requires_auth |-> None, error |-> None]

\* `x or ""` for an optional text.
OrEmpty(x) == IF x = None THEN << >> ELSE x[1]

\* Variant of check_url_accessibility that scans the body without lower().
check_url_accessibility_no_lower(u, r) ==
    IF r.kind = "raise_get"
    THEN [info_default EXCEPT !.error = Some(r.msg)]
    ELSE IF r.kind = "raise_text"
    THEN [info_default EXCEPT !.status_code = Some(r.status_code),
                              !.final_url = Some(r.url),
                              !.error = Some(r.msg)]
    ELSE LET text_lower == OrEmpty(r.text)
             requires_auth == \E m \in auth_markers : Contains(m, text_lower)
         IN  [ok |-> (r.status_code = 200 /\ ~requires_auth),
              status_code |-> Some(r.status_code),
              final_url |-> Some(r.url),
              requires_auth |-> Some(requires_auth),
              error |-> None]

\* r is what the network did with the GET: it raised inside requests.get
\* ("raise_get"), it answered but reading the response raised after the
\* status and URL were stored ("raise_text"), or it answered ("response").
check_url_accessibility(u, r) ==
    IF r.kind = "raise_get"
    THEN [info_default EXCEPT !.error = Some(r.msg)]
    ELSE IF r.kind = "raise_text"
    THEN [info_default EXCEPT !.status_code = Some(r.status_code),
                              !.final_url = Some(r.url),
                              !.error = Some(r.msg)]
    ELSE LET text_lower == Lower(OrEmpty(r.text))
             requires_auth == \E m \in auth_markers : Contains(m, text_lower)
         IN  [ok |-> (r.status_code = 200 /\ ~requires_auth),
              status_code |-> Some(r.status_code),
              final_url |-> Some(r.url),
              requires_auth |-> Some(requires_auth),
              error |-> None]

\* ------------------------------------------------------------------------
\* generate_ai_instructions
\* ------------------------------------------------------------------------

FALLBACK_PREFIX == "AI instructions unavailable. Reason: "

FALLBACK_STEPS == "\n\nFallback steps:\n- Open the deck in Presentations.ai\n- Click Share (or similar)\n- Set visibility to Public or Anyone with the link can view\n- Copy the link\n- Test in an incognito/private window\n- Revoke or restrict access later via the same Share settings"

\* "; ".join(parts)
RECURSIVE Join(_)
Join(parts) ==
    IF Len(parts) = 0 THEN ""
    ELSE IF Len(parts) = 1 THEN parts[1]
    ELSE parts[1] \o "; " \o Join(Tail(parts))

\* The status summary that is put into the prompt.
status_text(info) ==
    LET code == IF info.status_code # None
                THEN << "HTTP status: " \o ToString(info.status_code[1]) >>
                ELSE << >>
        auth == IF info.requires_auth = Some(TRUE)
                THEN << "Appears to require sign-in" >>
                ELSE IF info.requires_auth = Some(FALSE)
                THEN << "No sign-in required" >>
                ELSE << >>
        err  == IF info.error # None /\ info.error[1] # ""
                THEN << "Error: " \o info.error[1] >>
                ELSE << >>
        status_summary == code \o auth \o err
    IN  IF Len(status_summary) > 0 THEN Join(status_summary)
        ELSE "No status available"

\* The user message of the chat-completion request.
user_prompt(u, info) == [url |-> u, status |-> status_text(info)]

\* str(e) of the exception caught in generate_ai_instructions.  A response
\* whose choices list is empty fails at choices[0] with an IndexError.
ReasonOf(o) ==
    IF o.kind = "raise" THEN o.msg ELSE "list index out of range"

\* Variant of generate_ai_instructions whose fallback text repeats the
\* observed status of the link.
generate_ai_instructions_with_status(u, info, o) ==
    IF o.kind = "content" THEN o.content
    ELSE Some(FALLBACK_PREFIX \o ReasonOf(o) \o "; " \o status_text(info)
              \o FALLBACK_STEPS)

\* o is what the chat-completion call did: it returned a first choice with
\* the given content ("content", the content itself may be None), it raised
\* ("raise"), or it returned no choice at all ("no_choices").
generate_ai_instructions(u, info, o) ==
    IF o.kind = "content" THEN o.content
    ELSE Some(FALLBACK_PREFIX \o ReasonOf(o) \o FALLBACK_STEPS)

\* ------------------------------------------------------------------------
\* main: the status line of the second column
\* ------------------------------------------------------------------------

\* Python truthiness of an optional string / an optional integer.
TruthyStr(x) == x # None /\ x[1] # ""

TruthyInt(x) == x # None /\ x[1] # 0

StatusMessage(info) ==
    IF info.ok THEN "Publicly accessible"
    ELSE IF TruthyStr(info.error)
    THEN "Could not verify. Network error occurred."
    ELSE IF info.status_code = Some(200) /\ info.requires_auth = Some(TRUE)
    THEN "Link may require sign-in. Update share settings to make it public."
    ELSE IF TruthyInt(info.status_code) /\ info.status_code # Some(200)
    THEN "Link responded with status " \o ToString(info.status_code[1])
         \o ". May not be public."
    ELSE "Verification inconclusive. Please test in an incognito window."

\* ------------------------------------------------------------------------
\* The environment: what the user types and what the two services do
\* ------------------------------------------------------------------------

\* The value the text field starts with.
default_url == <<"h", "t", "t", "p", "s", ":", "/", "/", "a", "p", "p", ".", "p", "r", "e", "s", "e", "n", "t", "a", "t", "i", "o", "n", "s", ".", "a", "i", "/", "v", "i", "e", "w", "/", "y", "f", "V", "g", "R", "n", "p", "l", "y", "2">>

WS == <<" ", "\t", "\n", "\r", "\f", " ", "\t", "\n">>

Pads == {SubSeq(WS, 1, n) : n \in 0..MaxPad} \cup {SubSeq(WS, 2, n) : n \in 2..MaxPad}

TypedSchemes ==
    { << >>, HTTP,
      <<"H", "T", "T", "P", "S", ":", "/", "/">>,
      <<"H", "t", "t", "p", ":", "/", "/">>,
      <<"f", "t", "p", ":", "/", "/">> }

TypedHosts ==
    { << >>,
      <<"a", ".", "b">>,
      <<"a", "p", "p", ".", "p", "r", "e", "s", "e", "n", "t", "a", "t", "i", "o", "n", "s", ".", "a", "i", "/", "v", "i", "e", "w", "/", "a", "b", "c">>,
      <<"[">>,
      <<"e", "v", "i", "l", ".", "e", "x", "a", "m", "p", "l", "e", "/", "p", "r", "e", "s", "e", "n", "t", "a", "t", "i", "o", "n", "s", ".", "a", "i">> }

\* The texts the user may have in the field when the button is pressed.
Inputs ==
    {default_url} \cup
    {l \o sc \o h \o r : l \in Pads, sc \in TypedSchemes, h \in TypedHosts, r \in Pads}

\* str(e) of the exceptions the services raise; an exception built without
\* arguments has the empty string.
Messages == {"", "timed out"}

StatusCodes == {200, 403, 500}

REDIRECT == <<"h", "t", "t", "p", "s", ":", "/", "/", "a", "c", "c", "o", "u", "n", "t", "s", ".", "e", "x", "a", "m", "p", "l", "e", "/", "l", "o", "g", "i", "n">>

Bodies ==
    { None,
      Some(<<"W", "e", "l", "c", "o", "m", "e", " ", "t", "o", " ", "t", "h", "e", " ", "d", "e", "c", "k">>),
      Some(<<"P", "l", "e", "a", "s", "e", " ", "S", "i", "g", "n", " ", "I", "n">>),
      Some(<<"L", "O", "G", "I", "N">>),
      Some(<<"s", "i", "g", "n", "i", "n">>),
      Some(<<"R", "e", "q", "u", "e", "s", "t", " ", "a", "c", "c", "e", "s", "s">>) }

\* What the network can do with the GET for u.
ProbeOutcomes(u) ==
    {[kind |-> "raise_get", msg |-> m, status_code |-> 0, url |-> << >>, text |-> None] :
        m \in Messages}
    \cup
    {[kind |-> "raise_text", msg |-> m, status_code |-> c, url |-> u, text |-> None] :
        m \in Messages, c \in StatusCodes}
    \cup
    {[kind |-> "response", msg |-> "", status_code |-> c, url |-> f, text |-> b] :
        c \in StatusCodes, f \in {u, REDIRECT}, b \in Bodies}

NoProbe == [kind |-> "none", msg |-> "", status_code |-> 0, url |-> << >>, text |-> None]

\* What the chat-completion call can do.
LLMOutcomes ==
    {[kind |-> "content", content |-> c, msg |-> ""] :
        c \in {None, Some("1. Open the deck and click Share.")}}
    \cup
    {[kind |-> "raise", content |-> None, msg |-> m] :
        m \in Messages \cup {"Connection error."}}
    \cup
    {[kind |-> "no_choices", content |-> None, msg |-> ""]}

NoLLM == [kind |-> "none", content |-> None, msg |-> ""]

NoPrompt == [url |-> << >>, status |-> ""]

\* ------------------------------------------------------------------------
\* main
\* ------------------------------------------------------------------------

Init ==
    /\ pc = "idle"
    /\ url_input = default_url
    /\ url = << >>
    /\ provider_warning = FALSE
    /\ url_error = FALSE
    /\ probe = NoProbe
    /\ access_info = info_default
    /\ status_shown = ""
    /\ llm = NoLLM
    /\ guidance = None
    /\ prompt = NoPrompt
    /\ calls = << >>

\* The user changes the text of the field while no result is on the page:
\* the script reruns with `generate` false and renders the form only.
Edit ==
    /\ pc = "idle"
    /\ \E typed \in Inputs :
        /\ typed # url_input
        /\ url_input' = typed
    /\ UNCHANGED <<pc, url, provider_warning, url_error, probe, access_info,
                   status_shown, llm, guidance, prompt, calls>>

\* The button is pressed: the URL in the field is normalised, an empty URL
\* ends the run with the request for a URL, any other URL is classified
\* (warning when it is not the provider's) and the run goes on to the probe.
Press ==
    /\ pc = "idle"
    /\ LET u   == normalize_url(url_input)
           cls == is_presentations_ai_url(u)
       IN  /\ url' = u
           /\ url_error' = (u = << >>)
           /\ provider_warning' = (u # << >> /\ ~cls.raised /\ ~cls.value)
           /\ pc' = IF u = << >> THEN "done"
                    ELSE IF cls.raised THEN "crashed"
                    ELSE "probe"
    /\ UNCHANGED <<url_input, probe, access_info, status_shown, llm,
                   guidance, prompt, calls>>

\* After a run has ended, the next interaction with the page reruns the
\* script with `generate` false: nothing of the finished run is rendered
\* and nothing of it is kept.
Rerun ==
    /\ pc \in {"done", "crashed"}
    /\ pc' = "idle"
    /\ url' = << >>
    /\ url_error' = FALSE
    /\ provider_warning' = FALSE
    /\ probe' = NoProbe
    /\ access_info' = info_default
    /\ status_shown' = ""
    /\ llm' = NoLLM
    /\ guidance' = None
    /\ prompt' = NoPrompt
    /\ calls' = << >>
    /\ UNCHANGED url_input

\* The GET is issued, the verdict comes back and the status line is shown.
Probe ==
    /\ pc = "probe"
    /\ \E r \in ProbeOutcomes(url) :
        /\ probe' = r
        /\ access_info' = check_url_accessibility(url, r)
    /\ status_shown' = StatusMessage(access_info')
    /\ calls' = Append(calls, "GET")
    /\ pc' = "client"
    /\ UNCHANGED <<url_input, url, provider_warning, url_error, llm, guidance, prompt>>

\* client = OpenAI(): the constructor raises when no credential is
\* configured, and nothing in main catches it.
MakeClient ==
    /\ pc = "client"
    /\ \E configured \in BOOLEAN :
        pc' = IF configured THEN "generate" ELSE "crashed"
    /\ UNCHANGED <<url_input, url, provider_warning, url_error, probe,
                   access_info, status_shown, llm, guidance, prompt, calls>>

\* The chat-completion request is issued and the guidance is written.
Generate ==
    /\ pc = "generate"
    /\ \E o \in LLMOutcomes :
        /\ llm' = o
        /\ guidance' = generate_ai_instructions(url, access_info, o)
    /\ prompt' = user_prompt(url, access_info)
    /\ calls' = Append(calls, "CHAT")
    /\ pc' = "done"
    /\ UNCHANGED <<url_input, url, provider_warning, url_error, probe,
                   access_info, status_shown>>

Next == Edit \/ Press \/ Probe \/ MakeClient \/ Generate \/ Rerun

Spec == Init /\ [][Next]_vars

\* ------------------------------------------------------------------------
\* Properties
\* ------------------------------------------------------------------------

\* The text is empty or has whitespace characters only.
IsBlank(s) == \A i \in 1..Len(s) : IsSpace(s[i])

\* The text begins with http:// or https:// in some letter case.
HasHttpScheme(s) ==
    \E prefix \in {HTTP, HTTPS} :
        /\ Len(prefix) <= Len(s)
        /\ \A i \in 1..Len(prefix) : LowerChar(s[i]) = prefix[i]

\* Some auth marker occurs in the text in some letter case.
HasMarkerAnyCase(s) ==
    \E m \in auth_markers :
        \E i \in 1..(Len(s) - Len(m) + 1) :
            \A k \in 1..Len(m) : LowerChar(s[i + k - 1]) = m[k]

\* The button has been pressed and url is the normalised text of the field.
Normalized == pc # "idle"

\* check_url_accessibility has returned its verdict in this run.
Probed == probe.kind # "none"

\* The run is over, by a return or by an exception leaving main.
Ended == pc \in {"done", "crashed"}

\* C1: for every input that is empty or whitespace only, normalize_url
\* returns the empty string.
C1_BlankNormalizesToEmpty ==
    (Normalized /\ IsBlank(url_input)) => url = << >>

\* C2: when the text of the field is empty or whitespace only, the run
\* stops with the request for a URL and issues neither the GET nor the
\* chat-completion request.
C2_BlankStopsBeforeNetwork ==
    (Normalized /\ IsBlank(url_input)) =>
        (pc = "done" /\ url_error /\ calls = << >>)

\* C3: no run of main ends with an exception leaving main, whatever the
\* probe, the construction of the LLM client and the LLM call do.
C3_NoUnhandledFailure == pc # "crashed"

\* C4: when the chat-completion call raises or returns no choice,
\* generate_ai_instructions returns the fixed prefix, then the text of the
\* failure, then the fixed step list, the same for every URL and verdict.
C4_FallbackTextIsFixed ==
    (pc = "done" /\ llm.kind \in {"raise", "no_choices"}) =>
        guidance = Some("AI instructions unavailable. Reason: "
                        \o (IF llm.kind = "raise" THEN llm.msg
                            ELSE "list index out of range")
                        \o FALLBACK_STEPS)

\* Witness of C4: the call returned no choice after a probe that failed,
\* and the guidance has been written.
C4_Witness ==
    /\ pc = "done"
    /\ llm.kind = "no_choices"
    /\ access_info.error # None
    /\ guidance # None

\* C5: after check_url_accessibility returns, either an error is recorded
\* and every other field is at its default with ok false, or the status
\* code is populated and no error is recorded; never both, never neither.
C5_ErrorXorStatus ==
    Probed =>
        /\ (access_info.error # None) # (access_info.status_code # None)
        /\ (access_info.error # None) =>
              /\ access_info.status_code = None
              /\ access_info.final_url = None
              /\ access_info.requires_auth = None
              /\ ~access_info.ok
        /\ (access_info.status_code # None) => access_info.error = None

\* C6: ok is true exactly when no error is recorded, the status is 200 and
\* requires_auth is false; a response with another status is not ok, and a
\* 200 response whose body has an auth marker in any letter case is not ok
\* and requires auth.
C6_OkIffPublic ==
    Probed =>
        /\ access_info.ok <=>
              /\ access_info.error = None
              /\ access_info.status_code = Some(200)
              /\ access_info.requires_auth = Some(FALSE)
        /\ (probe.kind = "response" /\ probe.status_code # 200) => ~access_info.ok
        /\ (/\ probe.kind = "response"
            /\ probe.status_code = 200
            /\ HasMarkerAnyCase(OrEmpty(probe.text))) =>
              /\ ~access_info.ok
              /\ access_info.requires_auth = Some(TRUE)

\* Witness of C6: a 200 response whose body says "Please Sign In" has been
\* judged.
C6_Witness ==
    /\ Probed
    /\ probe.kind = "response"
    /\ probe.status_code = 200
    /\ probe.text = Some(<<"P", "l", "e", "a", "s", "e", " ", "S", "i", "g", "n", " ", "I", "n">>)
    /\ access_info.requires_auth = Some(TRUE)
    /\ ~access_info.ok

\* C7: whenever the probe failed with an exception, the status shown is the
\* network-error warning, whatever the text of the exception.
C7_NetworkErrorShown ==
    (Probed /\ probe.kind \in {"raise_get", "raise_text"}) =>
        status_shown = "Could not verify. Network error occurred."

\* C8: for every non-empty normalised URL the GET is issued, whether or not
\* the URL is classified as the provider's; a negative classification only
\* shows the warning, and the classifier never raises (a URL that urlparse
\* rejects is classified negative).
C8_ClassifierNeverBlocksProbe ==
    (Normalized /\ url # << >>) =>
        /\ pc = "probe" \/ (Len(calls) >= 1 /\ calls[1] = "GET")
        /\ ~is_presentations_ai_url(url).raised
        /\ urlparse(url).raised => provider_warning
        /\ provider_warning <=>
              (urlparse(url).raised \/ ~Contains(PROVIDER, urlparse(url).netloc))

\* Witness of C8: urlparse rejects the URL, the warning is shown and the
\* GET has been issued all the same.
C8_Witness ==
    /\ url # << >>
    /\ urlparse(url).raised
    /\ provider_warning
    /\ Len(calls) >= 1
    /\ calls[1] = "GET"

\* C9 as stated: an input that starts with http:// or https:// in any
\* letter case is returned trimmed and otherwise unchanged; every input
\* without such a scheme is returned as https:// followed by the trimmed
\* input.
C9_SchemeKeptOrAdded ==
    Normalized =>
        LET t == Strip(url_input)
        IN  /\ HasHttpScheme(t) => url = t
            /\ ~HasHttpScheme(t) => url = HTTPS \o t

\* C9 as amended: the same, but the second half holds for the non-empty
\* inputs without a scheme; the empty input is returned as the empty string.
C9_SchemeKeptOrAddedNonEmpty ==
    Normalized =>
        LET t == Strip(url_input)
        IN  /\ HasHttpScheme(t) => url = t
            /\ (~HasHttpScheme(t) /\ url_input # << >>) => url = HTTPS \o t
            /\ url_input = << >> => url = << >>

\* Witness of C9: an input with surrounding whitespace and an upper-case
\* scheme has been normalised to its trimmed form.
C9_Witness ==
    /\ Normalized
    /\ Len(url_input) > Len(url)
    /\ StartsWith(url, <<"H", "T", "T", "P", "S", ":", "/", "/">>)

\* C10: a run that passes the empty-URL check issues exactly one GET and
\* exactly one chat-completion request, the GET first, and repeats neither.
C10_OneProbeThenOneChat ==
    /\ calls \in {<< >>, <<"GET">>, <<"GET", "CHAT">>}
    /\ (Ended /\ ~url_error) => calls = <<"GET", "CHAT">>

====
